---- MODULE Spec2Model ----
(***************************************************************************)
(* Model of the Wikipedia research pipeline: WikipediaResearchWorkflow     *)
(* (agents/workflow.py) driving WikipediaSearchNode, WikipediaSummaryNode  *)
(* and GPTSummarizerNode (agents/nodes.py) over one ResearchState.         *)
(* Text is modelled by TLA+ strings (Len, \o and SubSeq act on them); the  *)
(* three external providers are nondeterministic: every call draws its     *)
(* response from a finite set of successes and faults.                     *)
(***************************************************************************)
EXTENDS Integers, Sequences, FiniteSets, TLC

VARIABLES
    query,      \* the argument of research()
    pc,         \* position of the run: idle, search, summarize, fetch_loop, generate_answer, END, done
    state,      \* the ResearchState held by the compiled graph
    documents,  \* WikipediaSummaryNode's local list `documents`
    idx,        \* position of WikipediaSummaryNode's loop in search_results (1-based)
    trace,      \* the graph nodes that have returned, in order, each with the dict it returned
    calls,      \* the external calls made so far, each with the provider's response, in order
    last,       \* the latest iteration of WikipediaSummaryNode's loop: title, position, responses
    fault,      \* the fault that escaped workflow.invoke, if one did
    result,     \* what research() returned
    outcome,    \* how research() ended: "none" (not yet), "returned", "raised"
    reqs,       \* two concurrent research() calls on one workflow: each call's position and locals
    states,     \* the ResearchState instances of the concurrent calls
    session,    \* st.session_state: whether research_history is set, and its value
    arrivals    \* every entry handed to add_to_history, in arrival order

vars == <<query, pc, state, documents, idx, trace, calls, last, fault, result, outcome,
          reqs, states, session, arrivals>>

\* the variables of the single research() run
runvars == <<query, pc, state, documents, idx, trace, calls, last, fault, result, outcome>>

----------------------------------------------------------------------------
(* Bounds and configuration *)

\* max_results of the modelled workflow (the default of the code is 3)
max_results == 2
\* max_content_length of the modelled workflow (the default of the code is 3000)
max_content_length == 2
\* page.summary[:500]
SummaryCap == 500
\* max_tokens of the generation request
MaxTokens == 1000

Min(a, b) == IF a <= b THEN a ELSE b

\* Python's s[:n] on a list or a string
Take(s, n) == SubSeq(s, 1, Min(n, Len(s)))

RECURSIVE Rep(_, _)
Rep(c, n) ==
    IF n = 0 THEN ""
    ELSE IF n = 1 THEN c
    ELSE Rep(c, n \div 2) \o Rep(c, n - (n \div 2))

----------------------------------------------------------------------------
(* Inputs: queries and provider responses *)

Queries == {"", " ", "a", " b\ta"}

Titles == {"T1", "T2"}

\* alternatives a disambiguation fault carries: prefixes of AltPool
AltPool == <<"A1", "A2", "A3", "A4", "A5", "A6">>

\* str(e) of a fault
FaultMsgs == {"", "timeout"}

GeneratedTexts == {"", "generated answer"}

RECURSIVE SeqsUpTo(_, _)
SeqsUpTo(S, n) ==
    IF n = 0 THEN {<<>>}
    ELSE LET shorter == SeqsUpTo(S, n - 1)
         IN  shorter \cup {Append(s, x) : s \in {t \in shorter : Len(t) = n - 1}, x \in S}

NoPage == [content |-> "", url |-> "", summary |-> ""]

\* a provider response: kind is "ok", "disambiguation", "page_error", "fault" or
\* "none"; list holds the titles found or the alternatives of a disambiguation,
\* msg the message of a fault or the generated text, page the fetched page
Resp(kind, list, msg, page) == [kind |-> kind, list |-> list, msg |-> msg, page |-> page]

NoResp == Resp("none", <<>>, "", NoPage)

\* wikipedia.search(term, results=limit): at most `limit` titles, or a fault
SearchResponses(limit) ==
    {Resp("ok", l, "", NoPage) : l \in SeqsUpTo(Titles, limit)}
    \cup {Resp("disambiguation", SubSeq(AltPool, 1, n), "", NoPage) : n \in 0..(limit + 1)}
    \cup {Resp("fault", <<>>, m, NoPage) : m \in FaultMsgs}

\* a page body of exactly max_content_length characters, and one a character longer
FullBody == Rep("x", max_content_length)
LongBody == Rep("x", max_content_length + 1)

\* a page summary one character over SummaryCap
LongSummary == Rep("s", SummaryCap + 1)

\* the pages the fetch provider can serve for a title: body under, at and over
\* max_content_length; summary empty, short and over SummaryCap
Pages(title) ==
    { [content |-> "", url |-> "http://" \o title, summary |-> ""],
      [content |-> FullBody, url |-> "http://" \o title, summary |-> "short"],
      [content |-> LongBody, url |-> "http://" \o title, summary |-> LongSummary] }

\* wikipedia.page(title): a page, or a fault
PageResponses(title) ==
    {Resp("ok", <<>>, "", p) : p \in Pages(title)}
    \cup {Resp("disambiguation", SubSeq(AltPool, 1, n), "", NoPage) : n \in {0, 2}}
    \cup {Resp("page_error", <<>>, "", NoPage)}
    \cup {Resp("fault", <<>>, "timeout", NoPage)}

\* what the provider answers while one title is handled: the first call and, when
\* that is a disambiguation fault with an alternative, the call for the alternative
FetchScenarios(title) ==
    UNION { IF r.kind = "disambiguation" /\ r.list # <<>>
            THEN {[first |-> r, retry |-> r2] : r2 \in PageResponses(r.list[1])}
            ELSE {[first |-> r, retry |-> NoResp]}
          : r \in PageResponses(title) }

\* client.chat.completions.create(...): a text, or a fault
GenerationResponses ==
    {Resp("ok", <<>>, t, NoPage) : t \in GeneratedTexts}
    \cup {Resp("fault", <<>>, m, NoPage) : m \in FaultMsgs}

----------------------------------------------------------------------------
(* ResearchState and the graph's merge of a node's output *)

\* research(): initial_state
InitialState(q) ==
    [query |-> q, search_results |-> <<>>, documents |-> <<>>,
     answer |-> "", sources |-> <<>>, error |-> ""]

\* StateGraph(ResearchState) declares no reducer: every key a node returns
\* overwrites that key of the state, every other key keeps its value
Merge(s, update) ==
    [k \in DOMAIN s |-> IF k \in DOMAIN update THEN update[k] ELSE s[k]]

\* an external call and the provider's response, as logged in `calls`
Call(svc, arg, limit, resp) == [svc |-> svc, arg |-> arg, limit |-> limit, resp |-> resp]

\* a node that returned and the dict it returned, as logged in `trace`
Ran(node, update) == [node |-> node, update |-> update]

\* Edge with the edge out of "search" drawn to the wrong node
EdgeSkipsSummarize(node) ==
    CASE node = "START" -> "search"
      [] node = "search" -> "generate_answer"
      [] node = "summarize" -> "generate_answer"
      [] node = "generate_answer" -> "END"

\* the edges of _build_workflow: the node that follows `node`
Edge(node) ==
    CASE node = "START" -> "search"
      [] node = "search" -> "summarize"
      [] node = "summarize" -> "generate_answer"
      [] node = "generate_answer" -> "END"

----------------------------------------------------------------------------
(* WikipediaSearchNode *)

\* the guard `if not query` left out
NotQueryNever(q) == FALSE

\* `not query`
NotQuery(q) == q = ""

IsSpace(c) == c \in {" ", "\t", "\n"}

\* Python's str.split(): the maximal runs of non-whitespace characters
RECURSIVE SplitFrom(_, _, _, _)
SplitFrom(s, i, cur, acc) ==
    IF i > Len(s)
    THEN IF cur = "" THEN acc ELSE Append(acc, cur)
    ELSE LET c == SubSeq(s, i, i)
         IN  IF IsSpace(c)
             THEN SplitFrom(s, i + 1, "", IF cur = "" THEN acc ELSE Append(acc, cur))
             ELSE SplitFrom(s, i + 1, cur \o c, acc)

Split(s) == SplitFrom(s, 1, "", <<>>)

\* the retry made with the whole query again
SimplifiedQueryWhole(q) == q

\* query.split()[0] if query.split() else query
SimplifiedQuery(q) == IF Split(q) # <<>> THEN Split(q)[1] ELSE q

\* SearchExcept reporting a fault without its message
SearchExceptNoError(q, r) ==
    IF r.kind = "disambiguation"
    THEN [search_results |-> Take(r.list, max_results), query |-> q]
    ELSE [search_results |-> <<>>, query |-> q]

\* SearchExcept without the slice e.options[:max_results]
SearchExceptUncut(q, r) ==
    IF r.kind = "disambiguation"
    THEN [search_results |-> r.list, query |-> q]
    ELSE [search_results |-> <<>>, error |-> r.msg, query |-> q]

\* the except clauses of WikipediaSearchNode.__call__ for a faulting search call
SearchExcept(q, r) ==
    IF r.kind = "disambiguation"
    THEN [search_results |-> Take(r.list, max_results), query |-> q]
    ELSE [search_results |-> <<>>, error |-> r.msg, query |-> q]

\* WikipediaSearchNode.__call__(inputs), the provider answering r1 to the first
\* call and r2 to the second: the returned dict and the calls made
WikipediaSearchNode(inputs, r1, r2) ==
    LET q  == inputs.query
        c1 == Call("search", q, max_results, r1)
        c2 == Call("search", SimplifiedQuery(q), max_results, r2)
    IN  IF NotQuery(q)
        THEN [update |-> [search_results |-> <<>>, error |-> "No query provided"],
              calls |-> <<>>]
        ELSE IF r1.kind # "ok"
        THEN [update |-> SearchExcept(q, r1), calls |-> <<c1>>]
        ELSE IF r1.list # <<>>
        THEN [update |-> [search_results |-> r1.list, query |-> q], calls |-> <<c1>>]
        ELSE IF r2.kind # "ok"
        THEN [update |-> SearchExcept(q, r2), calls |-> <<c1, c2>>]
        ELSE [update |-> [search_results |-> r2.list, query |-> q], calls |-> <<c1, c2>>]

----------------------------------------------------------------------------
(* WikipediaSummaryNode *)

TruncationMarker == "... [Content truncated]"

\* TruncateContent comparing with >= instead of >
TruncateContentAtLimit(content) ==
    IF Len(content) >= max_content_length
    THEN Take(content, max_content_length) \o TruncationMarker
    ELSE Take(content, max_content_length)

\* content = page.content[:max_content_length], the marker appended when longer
TruncateContent(content) ==
    IF Len(content) > max_content_length
    THEN Take(content, max_content_length) \o TruncationMarker
    ELSE Take(content, max_content_length)

\* the dict appended to documents for a fetched page
Document(title, page) ==
    [title |-> title, content |-> TruncateContent(page.content), url |-> page.url,
     summary |-> IF page.summary # "" THEN Take(page.summary, SummaryCap) ELSE ""]

\* FetchTitle without the retry for the first alternative
FetchTitleNoRetry(title, sc) ==
    IF sc.first.kind = "ok"
    THEN [docs |-> <<Document(title, sc.first.page)>>,
          calls |-> <<Call("fetch", title, 0, sc.first)>>]
    ELSE [docs |-> <<>>, calls |-> <<Call("fetch", title, 0, sc.first)>>]

\* one iteration of the loop `for title in search_results`, the provider
\* answering sc.first for the title and sc.retry for its first alternative:
\* the documents appended and the calls made
FetchTitle(title, sc) ==
    LET c1 == Call("fetch", title, 0, sc.first)
    IN  IF sc.first.kind = "ok"
        THEN [docs |-> <<Document(title, sc.first.page)>>, calls |-> <<c1>>]
        ELSE IF sc.first.kind = "disambiguation"
        THEN IF sc.first.list = <<>>
             THEN [docs |-> <<>>, calls |-> <<c1>>]
             ELSE LET alt == sc.first.list[1]
                      c2  == Call("fetch", alt, 0, sc.retry)
                  IN  IF sc.retry.kind = "ok"
                      THEN [docs |-> <<Document(alt, sc.retry.page)>>, calls |-> <<c1, c2>>]
                      ELSE [docs |-> <<>>, calls |-> <<c1, c2>>]
        ELSE [docs |-> <<>>, calls |-> <<c1>>]

\* SummaryNoResults without its error
SummaryNoResultsNoError(inputs) ==
    [documents |-> <<>>, query |-> inputs.query]

\* WikipediaSummaryNode.__call__ returning for an empty search_results
SummaryNoResults(inputs) ==
    [documents |-> <<>>, query |-> inputs.query, error |-> "No search results to process"]

\* WikipediaSummaryNode.__call__ returning after the loop
SummaryReturn(inputs, docs) == [documents |-> docs, query |-> inputs.query]

----------------------------------------------------------------------------
(* GPTSummarizerNode *)

\* the guard `if not documents` left out
NoDocumentsNever(docs) == FALSE

\* `not documents`
NoDocuments(docs) == docs = <<>>

NoDocumentsAnswer ==
    "I couldn't find any relevant Wikipedia articles for your query. Please try rephrasing your question or using different keywords."

\* Sources built by prepending instead of appending
RECURSIVE SourcesReversed(_)
SourcesReversed(docs) ==
    IF docs = <<>> THEN <<>>
    ELSE SourcesReversed(Tail(docs))
         \o <<[title |-> docs[1].title, url |-> docs[1].url, summary |-> docs[1].summary]>>

\* sources: one {title, url, summary} per document
RECURSIVE Sources(_)
Sources(docs) ==
    IF docs = <<>> THEN <<>>
    ELSE <<[title |-> docs[1].title, url |-> docs[1].url, summary |-> docs[1].summary]>>
         \o Sources(Tail(docs))

\* context = "\n\n".join(f"**{title}**:\n{content}" for each document)
RECURSIVE Context(_)
Context(docs) ==
    IF docs = <<>> THEN ""
    ELSE LET part == "**" \o docs[1].title \o "**:\n" \o docs[1].content
         IN  IF Len(docs) = 1 THEN part ELSE part \o "\n\n" \o Context(Tail(docs))

\* the prompt sent to the generation provider
Prompt(q, context) ==
    "You are a knowledgeable Wikipedia research assistant. Answer the user's question based ONLY on the provided Wikipedia content. \n\nGuidelines:\n- Provide a comprehensive but concise answer\n- Use information from multiple sources when relevant\n- If the information is insufficient, acknowledge the limitations\n- Structure your response clearly with proper formatting\n- Include specific details and examples when available\n\nUser Question: "
    \o q \o "\n\nWikipedia Content:\n" \o context
    \o "\n\nPlease provide a detailed answer based on the above information:"

\* GPTSummarizerNode.__call__(inputs), the provider answering r: the returned
\* dict and the calls made
GPTSummarizerNode(inputs, r) ==
    LET q    == inputs.query
        docs == inputs.documents
        c    == Call("generate", Prompt(q, Context(docs)), MaxTokens, r)
    IN  IF NotQuery(q)
        THEN [update |-> [answer |-> "No query provided", sources |-> <<>>], calls |-> <<>>]
        ELSE IF NoDocuments(docs)
        THEN [update |-> [answer |-> NoDocumentsAnswer, sources |-> <<>>], calls |-> <<>>]
        ELSE IF r.kind = "ok"
        THEN [update |-> [answer |-> r.msg, sources |-> Sources(docs), query |-> q],
              calls |-> <<c>>]
        ELSE [update |-> [answer |-> "I encountered an error while processing your request: " \o r.msg,
                          sources |-> Sources(docs), query |-> q],
              calls |-> <<c>>]

----------------------------------------------------------------------------
(* WikipediaResearchWorkflow.research *)

\* research() without its except clause: the fault reaches the caller
ResearchExceptReraise(q, msg) ==
    [outcome |-> "raised", result |-> InitialState(q)]

\* the except clause of research(): the record returned for an escaped fault
ResearchExcept(q, msg) ==
    [outcome |-> "returned",
     result  |-> [query |-> q, search_results |-> <<>>, documents |-> <<>>,
                  answer |-> "An error occurred during research: " \o msg,
                  sources |-> <<>>, error |-> msg]]

NoFault == [raised |-> FALSE, msg |-> ""]

----------------------------------------------------------------------------
(* Concurrent research() calls: inputs and per-call records *)

\* the two concurrent calls
Requests == {"r1", "r2"}

ConcQueries == {"", "a", " b\ta"}

ConcSearchResponses ==
    { Resp("ok", <<"T1", "T2">>, "", NoPage),
      Resp("ok", <<>>, "", NoPage),
      Resp("fault", <<>>, "timeout", NoPage) }

ConcFetchScenarios(title) ==
    { [first |-> Resp("ok", <<>>, "", [content |-> LongBody, url |-> "http://" \o title,
                                       summary |-> "short"]),
       retry |-> NoResp],
      [first |-> Resp("page_error", <<>>, "", NoPage), retry |-> NoResp],
      [first |-> Resp("disambiguation", <<"A1", "A2">>, "", NoPage),
       retry |-> Resp("ok", <<>>, "", [content |-> FullBody, url |-> "http://A1",
                                       summary |-> ""])] }

ConcGenerationResponses ==
    { Resp("ok", <<>>, "generated answer", NoPage),
      Resp("fault", <<>>, "timeout", NoPage) }

\* the provider responses one call has consumed: to the first and the second
\* search call, to the fetches of each title handled, to the generation call
NoneUsed == [s1 |-> NoResp, s2 |-> NoResp, f |-> <<>>, g |-> NoResp]

\* a research() call that has not started
IdleRequest ==
    [pc |-> "idle", query |-> "", documents |-> <<>>, idx |-> 0, used |-> NoneUsed,
     overlapped |-> FALSE, result |-> InitialState("")]

\* the one ResearchState shared by every call
SharedState(r) == "r1"

\* the ResearchState instance of call r: research() builds a new initial_state
\* dict on every call
OwnState(r) == r

----------------------------------------------------------------------------
(* Session history (utils/helpers.py) *)

\* `if len(research_history) > 10` and `[-10:]`
HistoryCap == 10

\* the add_to_history calls modelled in one session
MaxRequests == 12

\* st.session_state before initialize_session_state() has run
EmptySession == [has_history |-> FALSE, research_history |-> <<>>]

\* the (query, result) pairs handed to add_to_history
HistoryInputs ==
    {[query |-> q, result |-> ResearchExcept(q, "timeout").result] : q \in {"a", " b\ta"}}

\* Python's h[-n:]
LastN(h, n) == IF Len(h) > n THEN SubSeq(h, Len(h) - n + 1, Len(h)) ELSE h

\* the trim keeping the oldest entries, h[:10]
KeepLastWrongEnd(h) == IF Len(h) > HistoryCap THEN SubSeq(h, 1, HistoryCap) ELSE h

\* add_to_history: keep only the last 10 searches
KeepLast(h) == IF Len(h) > HistoryCap THEN LastN(h, HistoryCap) ELSE h

\* initialize_session_state(): research_history = [] when it is not set
InitializedSession(ss) ==
    IF ss.has_history THEN ss ELSE [has_history |-> TRUE, research_history |-> <<>>]

\* add_to_history(query, result) on session state ss
AddedToHistory(ss, q, res) ==
    LET ss1   == InitializedSession(ss)
        entry == [query |-> q, result |-> res, timestamp |-> ""]
    IN  [has_history |-> TRUE,
         research_history |-> KeepLast(Append(ss1.research_history, entry))]

NoIteration ==
    [title |-> "", index |-> 0, first |-> NoResp, retry |-> NoResp, before |-> 0, ncalls |-> 0]

Init ==
    /\ query = ""
    /\ pc = "idle"
    /\ state = InitialState("")
    /\ documents = <<>>
    /\ idx = 0
    /\ trace = <<>>
    /\ calls = <<>>
    /\ last = NoIteration
    /\ fault = NoFault
    /\ result = InitialState("")
    /\ outcome = "none"
    /\ reqs = [r \in Requests |-> IdleRequest]
    /\ states = [r \in Requests |-> InitialState("")]
    /\ session = EmptySession
    /\ arrivals = <<>>

\* research(query): build initial_state and enter the graph (edge START -> search)
Research(q) ==
    /\ pc = "idle"
    /\ query' = q
    /\ state' = InitialState(q)
    /\ pc' = Edge("START")
    /\ UNCHANGED <<documents, idx, trace, calls, last, fault, result, outcome>>
    /\ UNCHANGED <<reqs, states, session, arrivals>>

\* node "search" runs and its output is merged; edge search -> summarize
SearchStage ==
    /\ pc = "search"
    /\ \E r1 \in SearchResponses(max_results), r2 \in SearchResponses(max_results) :
         LET out == WikipediaSearchNode(state, r1, r2)
         IN  /\ state' = Merge(state, out.update)
             /\ calls' = calls \o out.calls
             /\ trace' = Append(trace, Ran("search", out.update))
    /\ pc' = Edge("search")
    /\ UNCHANGED <<query, documents, idx, last, fault, result, outcome>>
    /\ UNCHANGED <<reqs, states, session, arrivals>>

\* node "summarize" starts: it returns at once for an empty search_results
\* (edge summarize -> generate_answer), or enters its loop with documents = []
SummaryStage ==
    /\ pc = "summarize"
    /\ IF state.search_results = <<>>
       THEN /\ state' = Merge(state, SummaryNoResults(state))
            /\ trace' = Append(trace, Ran("summarize", SummaryNoResults(state)))
            /\ pc' = Edge("summarize")
            /\ UNCHANGED <<documents, idx>>
       ELSE /\ documents' = <<>>
            /\ idx' = 1
            /\ pc' = "fetch_loop"
            /\ UNCHANGED <<state, trace>>
    /\ UNCHANGED <<query, calls, last, fault, result, outcome>>
    /\ UNCHANGED <<reqs, states, session, arrivals>>

\* one iteration of the loop of node "summarize"; after the last title the node
\* returns and its output is merged; edge summarize -> generate_answer
FetchStep ==
    /\ pc = "fetch_loop"
    /\ idx <= Len(state.search_results)
    /\ LET title == state.search_results[idx]
       IN  \E sc \in FetchScenarios(title) :
             LET out  == FetchTitle(title, sc)
                 docs == documents \o out.docs
             IN  /\ documents' = docs
                 /\ calls' = calls \o out.calls
                 /\ last' = [title |-> title, index |-> idx, first |-> sc.first,
                             retry |-> sc.retry, before |-> Len(documents),
                             ncalls |-> Len(out.calls)]
                 /\ IF idx = Len(state.search_results)
                    THEN /\ state' = Merge(state, SummaryReturn(state, docs))
                         /\ trace' = Append(trace, Ran("summarize", SummaryReturn(state, docs)))
                         /\ pc' = Edge("summarize")
                    ELSE UNCHANGED <<state, trace, pc>>
    /\ idx' = idx + 1
    /\ UNCHANGED <<query, fault, result, outcome>>
    /\ UNCHANGED <<reqs, states, session, arrivals>>

\* node "generate_answer" runs and its output is merged; edge generate_answer -> END
GenerateStage ==
    /\ pc = "generate_answer"
    /\ \E r \in GenerationResponses :
         LET out == GPTSummarizerNode(state, r)
         IN  /\ state' = Merge(state, out.update)
             /\ calls' = calls \o out.calls
             /\ trace' = Append(trace, Ran("generate_answer", out.update))
    /\ pc' = Edge("generate_answer")
    /\ UNCHANGED <<query, documents, idx, last, fault, result, outcome>>
    /\ UNCHANGED <<reqs, states, session, arrivals>>

\* workflow.invoke returns the final state and research() returns it
ResearchReturn ==
    /\ pc = "END"
    /\ result' = state
    /\ outcome' = "returned"
    /\ pc' = "done"
    /\ UNCHANGED <<query, state, documents, idx, trace, calls, last, fault>>
    /\ UNCHANGED <<reqs, states, session, arrivals>>

\* a fault escapes workflow.invoke while a node is due or running, and the
\* except clause of research() handles it
InvokeFault ==
    /\ pc \in {"search", "summarize", "fetch_loop", "generate_answer"}
    /\ \E m \in FaultMsgs :
         LET r == ResearchExcept(query, m)
         IN  /\ fault' = [raised |-> TRUE, msg |-> m]
             /\ result' = r.result
             /\ outcome' = r.outcome
    /\ pc' = "done"
    /\ UNCHANGED <<query, state, documents, idx, trace, calls, last>>
    /\ UNCHANGED <<reqs, states, session, arrivals>>

\* research() under every behaviour of the three providers
Next ==
    \/ \E q \in Queries : Research(q)
    \/ SearchStage
    \/ SummaryStage
    \/ FetchStep
    \/ GenerateStage
    \/ ResearchReturn

Spec == Init /\ [][Next]_vars

\* as Next, and a fault may escape the graph run
NextEscape ==
    \/ \E q \in Queries : Research(q)
    \/ SearchStage
    \/ SummaryStage
    \/ FetchStep
    \/ GenerateStage
    \/ ResearchReturn
    \/ InvokeFault

SpecEscape == Init /\ [][NextEscape]_vars

----------------------------------------------------------------------------
(* Two concurrent research() calls on one workflow object *)

\* whether another call is between its start and its return
Overlaps(r) == \E o \in Requests \ {r} : reqs[o].pc \notin {"idle", "done"}

\* call r takes a step: its record changes, and it notes whether it overlaps
Stepped(r, rec) == [reqs EXCEPT ![r] = [rec EXCEPT !.overlapped = @ \/ Overlaps(r)]]

\* research(query) of call r: build initial_state and enter the graph
ConcResearch(r) ==
    /\ reqs[r].pc = "idle"
    /\ \E q \in ConcQueries :
         /\ reqs' = Stepped(r, [reqs[r] EXCEPT !.pc = Edge("START"), !.query = q])
         /\ states' = [states EXCEPT ![OwnState(r)] = InitialState(q)]
    /\ UNCHANGED <<runvars, session, arrivals>>

\* node "search" of call r
ConcSearch(r) ==
    /\ reqs[r].pc = "search"
    /\ \E r1 \in ConcSearchResponses, r2 \in ConcSearchResponses :
         LET st  == states[OwnState(r)]
             out == WikipediaSearchNode(st, r1, r2)
             n   == Len(out.calls)
         IN  /\ states' = [states EXCEPT ![OwnState(r)] = Merge(st, out.update)]
             /\ reqs' = Stepped(r, [reqs[r] EXCEPT
                                      !.pc = Edge("search"),
                                      !.used.s1 = IF n >= 1 THEN r1 ELSE NoResp,
                                      !.used.s2 = IF n >= 2 THEN r2 ELSE NoResp])
    /\ UNCHANGED <<runvars, session, arrivals>>

\* node "summarize" of call r starts
ConcSummary(r) ==
    /\ reqs[r].pc = "summarize"
    /\ LET st == states[OwnState(r)]
       IN  IF st.search_results = <<>>
           THEN /\ states' = [states EXCEPT ![OwnState(r)] = Merge(st, SummaryNoResults(st))]
                /\ reqs' = Stepped(r, [reqs[r] EXCEPT !.pc = Edge("summarize")])
           ELSE /\ reqs' = Stepped(r, [reqs[r] EXCEPT !.pc = "fetch_loop", !.idx = 1,
                                                      !.documents = <<>>])
                /\ UNCHANGED states
    /\ UNCHANGED <<runvars, session, arrivals>>

\* one iteration of the loop of node "summarize" of call r
ConcFetch(r) ==
    /\ reqs[r].pc = "fetch_loop"
    /\ LET st == states[OwnState(r)]
           i  == reqs[r].idx
       IN  /\ i <= Len(st.search_results)
           /\ \E sc \in ConcFetchScenarios(st.search_results[i]) :
                LET out  == FetchTitle(st.search_results[i], sc)
                    docs == reqs[r].documents \o out.docs
                    rec  == [reqs[r] EXCEPT !.documents = docs, !.idx = i + 1,
                                            !.used.f = Append(@, sc)]
                IN  IF i = Len(st.search_results)
                    THEN /\ states' = [states EXCEPT
                                         ![OwnState(r)] = Merge(st, SummaryReturn(st, docs))]
                         /\ reqs' = Stepped(r, [rec EXCEPT !.pc = Edge("summarize")])
                    ELSE /\ reqs' = Stepped(r, rec)
                         /\ UNCHANGED states
    /\ UNCHANGED <<runvars, session, arrivals>>

\* node "generate_answer" of call r
ConcGenerate(r) ==
    /\ reqs[r].pc = "generate_answer"
    /\ \E g \in ConcGenerationResponses :
         LET st  == states[OwnState(r)]
             out == GPTSummarizerNode(st, g)
         IN  /\ states' = [states EXCEPT ![OwnState(r)] = Merge(st, out.update)]
             /\ reqs' = Stepped(r, [reqs[r] EXCEPT
                                      !.pc = Edge("generate_answer"),
                                      !.used.g = IF out.calls # <<>> THEN g ELSE NoResp])
    /\ UNCHANGED <<runvars, session, arrivals>>

\* research() of call r returns the final state
ConcReturn(r) ==
    /\ reqs[r].pc = "END"
    /\ reqs' = Stepped(r, [reqs[r] EXCEPT !.pc = "done", !.result = states[OwnState(r)]])
    /\ UNCHANGED <<runvars, states, session, arrivals>>

\* the loop of node "summarize" run to its end over titles i.. with the
\* page responses scs
RECURSIVE FetchAll(_, _, _)
FetchAll(titles, scs, i) ==
    IF i > Len(titles) THEN <<>>
    ELSE FetchTitle(titles[i], scs[i]).docs \o FetchAll(titles, scs, i + 1)

\* the state after node "search" of research(q) run with no other call
AfterSearch(q, used) ==
    LET s0 == InitialState(q)
    IN  Merge(s0, WikipediaSearchNode(s0, used.s1, used.s2).update)

\* the final state of research(q) run with no other call: the compiled graph
\* applies search, summarize and generate_answer in turn to its own state
RunAlone(q, used) ==
    LET s1 == AfterSearch(q, used)
        s2 == IF s1.search_results = <<>>
              THEN Merge(s1, SummaryNoResults(s1))
              ELSE Merge(s1, SummaryReturn(s1, FetchAll(s1.search_results, used.f, 1)))
    IN  Merge(s2, GPTSummarizerNode(s2, used.g).update)

NextConcurrent ==
    \E r \in Requests :
        \/ ConcResearch(r)
        \/ ConcSearch(r)
        \/ ConcSummary(r)
        \/ ConcFetch(r)
        \/ ConcGenerate(r)
        \/ ConcReturn(r)

SpecConcurrent == Init /\ [][NextConcurrent]_vars

----------------------------------------------------------------------------
(* The session's history *)

\* main() calls initialize_session_state()
InitializeSessionState ==
    /\ session' = InitializedSession(session)
    /\ session' # session
    /\ UNCHANGED <<runvars, reqs, states, arrivals>>

\* main() calls add_to_history(query, result) after a research() call
AddToHistory ==
    /\ Len(arrivals) < MaxRequests
    /\ \E in \in HistoryInputs :
         /\ session' = AddedToHistory(session, in.query, in.result)
         /\ arrivals' = Append(arrivals, in)
    /\ UNCHANGED <<runvars, reqs, states>>

NextHistory ==
    \/ InitializeSessionState
    \/ AddToHistory

SpecHistory == Init /\ [][NextHistory]_vars

----------------------------------------------------------------------------
(* Properties *)

StateFields == {"query", "search_results", "documents", "answer", "sources", "error"}

\* the calls made to one provider, in order
CallsOf(svc) == SelectSeq(calls, LAMBDA c : c.svc = svc)

Started == pc # "idle"

Terminal == pc = "done"

\* C1: research(query) never raises, whatever the query and whatever the
\* providers do: every run that has not returned can take a step, a finished run
\* has returned a record with exactly the six fields, and when a fault escaped
\* the graph run the returned record is exactly the fallback record built from
\* the query and the fault's message.
C1_NeverRaises ==
    /\ outcome # "raised"
    /\ (Started /\ ~Terminal) => ENABLED Next
    /\ Terminal => outcome = "returned" /\ DOMAIN result = StateFields
    /\ fault.raised =>
         /\ Terminal
         /\ result = [query |-> query, search_results |-> <<>>, documents |-> <<>>,
                      answer |-> "An error occurred during research: " \o fault.msg,
                      sources |-> <<>>, error |-> fault.msg]

\* a fault with a message escaped after provider calls had been made, and
\* research() has returned
C1_Witness ==
    /\ Terminal
    /\ fault.raised
    /\ fault.msg = "timeout"
    /\ outcome = "returned"
    /\ calls # <<>>

StageOrder == <<"search", "summarize", "generate_answer">>

ProviderOf(stage) ==
    CASE stage = 1 -> "search" [] stage = 2 -> "fetch" [] stage = 3 -> "generate"

StageOfProvider(svc) ==
    CASE svc = "search" -> 1 [] svc = "fetch" -> 2 [] svc = "generate" -> 3

\* the stage that is running or due
CurrentStage ==
    CASE pc = "search" -> 1
      [] pc \in {"summarize", "fetch_loop"} -> 2
      [] pc = "generate_answer" -> 3
      [] OTHER -> 4

\* C2: the three stages run in the order search, summarize, generate_answer,
\* each once and with no branching: the nodes that have returned are always a
\* prefix of that order, the stage that is running is the one after the nodes
\* that have returned, a finished run has run all three, every provider call
\* belongs to the running stage or an earlier one (so calls are grouped by
\* stage, in stage order), the state holds each returned node's output, the
\* fetch loop handles the titles written by the search stage, and the
\* generation request is built from the documents written by the fetch stage.
C2_FixedOrder ==
    /\ Len(trace) <= 3
    /\ \A i \in 1..Len(trace) : trace[i].node = StageOrder[i]
    /\ Started => Len(trace) = CurrentStage - 1
    /\ Terminal => Len(trace) = 3
    /\ \A i \in 1..Len(calls) : StageOfProvider(calls[i].svc) <= CurrentStage
    /\ \A i, j \in 1..Len(calls) :
         i < j => StageOfProvider(calls[i].svc) <= StageOfProvider(calls[j].svc)
    /\ Len(trace) >= 1 => state.search_results = trace[1].update.search_results
    /\ last.index > 0 =>
         /\ Len(trace) >= 1
         /\ last.index <= Len(trace[1].update.search_results)
         /\ last.title = trace[1].update.search_results[last.index]
    /\ Len(trace) >= 2 =>
         /\ state.documents = trace[2].update.documents
         /\ last.index = Len(trace[1].update.search_results)
    /\ Len(trace) = 3 =>
         /\ state.sources = trace[3].update.sources
         /\ \A i \in 1..Len(calls) :
              calls[i].svc = "generate" =>
                /\ calls[i].arg = Prompt(query, Context(trace[2].update.documents))
                /\ Len(trace[3].update.sources) = Len(trace[2].update.documents)

\* a finished run in which all three providers were called
C2_Witness ==
    /\ Terminal
    /\ Len(trace) = 3
    /\ CallsOf("search") # <<>>
    /\ Len(CallsOf("fetch")) >= 2
    /\ CallsOf("generate") # <<>>

\* C3: in the terminal state of every run, answer is a non-empty string, also
\* when the generation call succeeds, whatever text it returns.
C3_AnswerNonEmpty == Terminal => result.answer # ""

\* C4: with a search provider that returns at most `limit` titles, every state
\* of a run satisfies len(documents) <= len(search_results) <= max_results: in
\* the graph state, in the fetch loop's local list, and in the returned record.
C4_Lengths ==
    /\ Len(state.documents) <= Len(state.search_results)
    /\ Len(state.search_results) <= max_results
    /\ Len(documents) <= Len(state.search_results)
    /\ pc = "fetch_loop" => Len(documents) <= idx - 1
    /\ Terminal =>
         /\ Len(result.documents) <= Len(result.search_results)
         /\ Len(result.search_results) <= max_results

\* the search fault carried more than max_results alternatives, every one of
\* the retained titles yielded a document, the last through a fetch retry
C4_Witness ==
    /\ Terminal
    /\ Len(CallsOf("search")) = 2
    /\ CallsOf("search")[2].resp.kind = "disambiguation"
    /\ Len(CallsOf("search")[2].resp.list) > max_results
    /\ Len(result.search_results) = max_results
    /\ Len(result.documents) = max_results
    /\ last.first.kind = "disambiguation"
    /\ last.retry.kind = "ok"

\* C5: for the empty query no provider is ever called, the search stage
\* returns search_results = [] with error "No query provided" and the state
\* holds them when the search stage has returned, and the terminal state
\* carries a non-empty error.
C5_EmptyQuery ==
    (Started /\ query = "") =>
        /\ calls = <<>>
        /\ Len(trace) >= 1 =>
             trace[1].update = [search_results |-> <<>>, error |-> "No query provided"]
        /\ pc = "summarize" =>
             state.search_results = <<>> /\ state.error = "No query provided"
        /\ Terminal => result.error # ""

\* the run for the empty query has finished, through all three stages
C5_Witness ==
    /\ Terminal
    /\ query = ""
    /\ Len(trace) = 3
    /\ calls = <<>>
    /\ result.error = "No search results to process"
    /\ result.answer = "No query provided"

\* C6: a whitespace-only query is treated as the empty query is: no search
\* call, no fetch or generation call, and an error-carrying terminal state.
C6_WhitespaceInvalid ==
    (Started /\ Split(query) = <<>>) =>
        /\ calls = <<>>
        /\ Terminal => result.error # ""

\* C7 as claimed: at most one generation call, none when documents is empty as
\* the synthesis stage runs, and then the answer is the fixed apology text and
\* sources is empty.
C7_ApologyWheneverNoDocuments ==
    /\ Len(CallsOf("generate")) <= 1
    /\ (Len(trace) = 3 /\ trace[2].update.documents = <<>>) =>
         /\ CallsOf("generate") = <<>>
         /\ state.answer = NoDocumentsAnswer
         /\ state.sources = <<>>

\* C7, amended: at most one generation call, none when documents is empty as
\* the synthesis stage runs, and then sources is empty and the answer is the
\* fixed apology text for a non-empty query, "No query provided" for the empty
\* query; the record returned carries that answer.
C7_NoGenerationWithoutDocuments ==
    /\ Len(CallsOf("generate")) <= 1
    /\ (Len(trace) = 3 /\ trace[2].update.documents = <<>>) =>
         /\ CallsOf("generate") = <<>>
         /\ state.answer = IF query = "" THEN "No query provided" ELSE NoDocumentsAnswer
         /\ state.sources = <<>>
         /\ Terminal => result.answer = state.answer /\ result.sources = <<>>

\* a non-empty query found titles, every title was skipped by the fetch stage,
\* and the run ended with the apology text and no generation call
C7_Witness ==
    /\ Terminal
    /\ query # ""
    /\ Len(result.search_results) >= 2
    /\ Len(CallsOf("fetch")) >= 2
    /\ result.documents = <<>>
    /\ CallsOf("generate") = <<>>
    /\ result.answer = NoDocumentsAnswer
    /\ result.sources = <<>>

\* C8: in the terminal state sources has one {title, url, summary} entry per
\* document, in the same order and with the same values; when the generation
\* call faulted the answer is the fixed error sentence followed by the fault's
\* message, when it succeeded the answer is the returned text.
C8_SourcesFromDocuments ==
    Terminal =>
        /\ Len(result.sources) = Len(result.documents)
        /\ \A i \in 1..Len(result.documents) :
             result.sources[i] = [title |-> result.documents[i].title,
                                  url |-> result.documents[i].url,
                                  summary |-> result.documents[i].summary]
        /\ \A i \in 1..Len(calls) :
             calls[i].svc = "generate" =>
               /\ calls[i].resp.kind = "fault" =>
                    result.answer =
                      "I encountered an error while processing your request: " \o calls[i].resp.msg
               /\ calls[i].resp.kind = "ok" => result.answer = calls[i].resp.msg

\* two different documents were fetched and the generation call faulted
C8_Witness ==
    /\ Terminal
    /\ Len(result.documents) >= 2
    /\ result.documents[1].title # result.documents[2].title
    /\ Len(result.sources) = Len(result.documents)
    /\ CallsOf("generate") # <<>>
    /\ CallsOf("generate")[1].resp.kind = "fault"
    /\ CallsOf("generate")[1].resp.msg = "timeout"

\* the documents appended by the latest iteration of the fetch loop
Contribution == SubSeq(documents, last.before + 1, Len(documents))

\* C9, in every state: the latest iteration handled the title at its position
\* of search_results; a successful fetch contributed one document of that
\* title with one call; a disambiguation fault with an alternative made exactly
\* one more call, for the first alternative, and contributed one document of
\* that alternative if that call succeeded, nothing otherwise; any other fault
\* contributed nothing with one call; and once the stage has returned, every
\* title has been handled and the state's documents are the contributions.
C9_Iteration ==
    /\ last.index > 0 =>
         LET f == CallsOf("fetch")
             n == Len(f)
         IN  /\ last.index <= Len(state.search_results)
             /\ last.title = state.search_results[last.index]
             /\ last.ncalls \in {1, 2}
             /\ n >= last.ncalls
             /\ n <= 2 * last.index
             /\ Len(documents) <= last.index
             /\ f[n - last.ncalls + 1].arg = last.title
             /\ f[n - last.ncalls + 1].resp = last.first
             /\ IF last.first.kind = "ok"
                THEN /\ last.ncalls = 1
                     /\ Len(Contribution) = 1
                     /\ Contribution[1].title = last.title
                     /\ Contribution[1].url = last.first.page.url
                ELSE IF last.first.kind = "disambiguation" /\ last.first.list # <<>>
                THEN /\ last.ncalls = 2
                     /\ f[n].arg = last.first.list[1]
                     /\ f[n].resp = last.retry
                     /\ IF last.retry.kind = "ok"
                        THEN /\ Len(Contribution) = 1
                             /\ Contribution[1].title = last.first.list[1]
                             /\ Contribution[1].url = last.retry.page.url
                        ELSE Contribution = <<>>
                ELSE /\ last.ncalls = 1
                     /\ Contribution = <<>>
    /\ (Len(trace) >= 2 /\ state.search_results # <<>>) =>
         /\ last.index = Len(state.search_results)
         /\ state.documents = documents

\* C9, in every step of the fetch loop: the iteration handles the next title,
\* keeps the documents contributed so far, in order, and appends its own
\* contribution after them.
C9_Step ==
    (pc = "fetch_loop" /\ last' # last) =>
        /\ last'.index = last.index + 1
        /\ last'.before = Len(documents)
        /\ Len(documents') >= Len(documents)
        /\ SubSeq(documents', 1, Len(documents)) = documents
        /\ Len(calls') = Len(calls) + last'.ncalls

\* C9: the fetch stage handles each title independently and in order, with at
\* most two calls and at most one document per title, no fault stopping the
\* later titles.
C9_PerTitle == []C9_Iteration /\ [][C9_Step]_vars

\* the first title was not found, the second was resolved through its first
\* alternative, and the run ended with that one document
C9_Witness ==
    /\ Terminal
    /\ Len(result.search_results) = 2
    /\ CallsOf("fetch")[1].resp.kind = "page_error"
    /\ last.index = 2
    /\ last.first.kind = "disambiguation"
    /\ last.retry.kind = "ok"
    /\ Len(result.documents) = 1
    /\ result.documents[1].title = "A1"

\* C10: a fault of the search provider, on the first or the second call, is
\* contained by the search stage, which returns; on a disambiguation fault
\* search_results is the first max_results alternatives in their order and the
\* stage sets no error; on any other fault search_results is [] and error is
\* the fault's message.
C10_SearchFaults ==
    /\ outcome # "raised"
    /\ ~fault.raised
    /\ (Started /\ pc # "search") => Len(trace) >= 1
    /\ (Len(trace) >= 1 /\ CallsOf("search") # <<>>) =>
         LET sc == CallsOf("search")
             r  == sc[Len(sc)].resp
             u  == trace[1].update
         IN  /\ r.kind = "disambiguation" =>
                  /\ Len(u.search_results) = Min(max_results, Len(r.list))
                  /\ \A i \in 1..Len(u.search_results) : u.search_results[i] = r.list[i]
                  /\ "error" \notin DOMAIN u
                  /\ pc = "summarize" => state.error = ""
             /\ r.kind = "fault" =>
                  /\ u.search_results = <<>>
                  /\ "error" \in DOMAIN u
                  /\ u.error = r.msg
                  /\ pc = "summarize" => state.error = r.msg /\ state.search_results = <<>>

\* the broadened second search call faulted and the run went on to its end
C10_Witness ==
    /\ Terminal
    /\ Len(CallsOf("search")) = 2
    /\ CallsOf("search")[2].resp.kind = "fault"
    /\ CallsOf("search")[2].resp.msg = "timeout"
    /\ trace[1].update.error = "timeout"
    /\ result.search_results = <<>>

\* t is the first whitespace-delimited token of q: a non-empty run of
\* non-whitespace characters, preceded by whitespace only and followed by
\* whitespace or the end of q
IsFirstToken(t, q) ==
    \E i \in 1..Len(q) : \E j \in i..Len(q) :
        /\ t = SubSeq(q, i, j)
        /\ \A k \in 1..(i - 1) : SubSeq(q, k, k) \in {" ", "\t", "\n"}
        /\ \A k \in i..j : SubSeq(q, k, k) \notin {" ", "\t", "\n"}
        /\ j < Len(q) => SubSeq(q, j + 1, j + 1) \in {" ", "\t", "\n"}

HasToken(q) == \E k \in 1..Len(q) : SubSeq(q, k, k) \notin {" ", "\t", "\n"}

\* what C13 says of the search calls but for the term of the second call
SearchCallsShape ==
    /\ Len(CallsOf("search")) <= 2
    /\ (Started /\ query # "" /\ Len(trace) >= 1) =>
         LET sc == CallsOf("search")
             u  == trace[1].update
         IN  /\ Len(sc) >= 1
             /\ sc[1].arg = query
             /\ sc[1].limit = max_results
             /\ Len(sc) = 2 <=> (sc[1].resp.kind = "ok" /\ sc[1].resp.list = <<>>)
             /\ (sc[1].resp.kind = "ok" /\ sc[1].resp.list # <<>>) =>
                  u.search_results = sc[1].resp.list
             /\ Len(sc) = 2 =>
                  /\ sc[2].limit = max_results
                  /\ sc[2].resp.kind = "ok" => u.search_results = sc[2].resp.list

FetchedText ==
    IF last.first.kind = "ok" THEN last.first.page.content ELSE last.retry.page.content

\* C14: the body of every stored document is the fetched text itself when that
\* is at most max_content_length long, and its first max_content_length
\* characters followed by the truncation marker when it is longer, on the
\* direct path and on the retry path; no stored body is longer than
\* max_content_length plus the marker.
C14_Truncation ==
    /\ (last.index > 0 /\ Contribution # <<>>) =>
         LET body == Contribution[1].content
         IN  /\ Len(FetchedText) <= max_content_length => body = FetchedText
             /\ Len(FetchedText) > max_content_length =>
                  body = SubSeq(FetchedText, 1, max_content_length) \o "... [Content truncated]"
    /\ \A i \in 1..Len(documents) :
         Len(documents[i].content) <= max_content_length + Len("... [Content truncated]")
    /\ \A i \in 1..Len(state.documents) :
         Len(state.documents[i].content) <= max_content_length + Len("... [Content truncated]")

\* a page over the limit was fetched through the disambiguation retry and
\* stored truncated, after a page at the limit had been stored verbatim
C14_Witness ==
    /\ last.index = 2
    /\ last.first.kind = "disambiguation"
    /\ last.retry.kind = "ok"
    /\ Len(last.retry.page.content) = max_content_length + 1
    /\ Len(documents) = 2
    /\ Len(documents[1].content) = max_content_length
    /\ Len(documents[2].content) = max_content_length + Len("... [Content truncated]")

\* C15: in the terminal state of a run that did not take the fallback of
\* research(), error is "" or "No search results to process", and it is
\* non-empty exactly when search_results is empty: the fetch stage overwrites
\* an error of the search stage, and skipped titles or a generation fault set
\* none.
C15_TerminalError ==
    (Terminal /\ ~fault.raised) =>
        /\ result.error \in {"", "No search results to process"}
        /\ result.error # "" <=> result.search_results = <<>>

\* the search stage reported a fault's message and the run ended with the
\* fetch stage's error in its place
C15_Witness ==
    /\ Terminal
    /\ ~fault.raised
    /\ "error" \in DOMAIN trace[1].update
    /\ trace[1].update.error = "timeout"
    /\ result.error = "No search results to process"

\* C12: after any n add_to_history calls in one session the retained history
\* is exactly the last min(n, 10) entries handed in, in arrival order, and it
\* never holds more than 10 entries.
C12_HistoryWindow ==
    LET h == session.research_history
        n == Len(arrivals)
        k == IF n <= 10 THEN n ELSE 10
    IN  /\ Len(h) <= 10
        /\ Len(h) = k
        /\ n > 0 => session.has_history
        /\ \A i \in 1..k :
             /\ h[i].query = arrivals[n - k + i].query
             /\ h[i].result = arrivals[n - k + i].result

\* twelve entries have arrived, the history holds ten, and its oldest entry is
\* the third arrival, which differs from the first
C12_Witness ==
    /\ Len(arrivals) = 12
    /\ Len(session.research_history) = 10
    /\ arrivals[1].query # arrivals[3].query
    /\ session.research_history[1].query = arrivals[3].query
    /\ session.research_history[10].query = arrivals[12].query
    /\ session.research_history[1].query # session.research_history[2].query

\* C11: two research() calls on one workflow object share no mutable state:
\* once a call has started, the state its stages work on carries its own
\* query, and under every interleaving of the stage steps of the two calls a
\* finished call has fetched exactly the titles its own search found and
\* returns the final state it reaches when it runs alone with the same
\* provider responses.
C11_Isolation ==
    \A r \in Requests :
        /\ reqs[r].pc \notin {"idle", "done"} => states[r].query = reqs[r].query
        /\ reqs[r].pc = "done" =>
              /\ Len(reqs[r].used.f) = Len(AfterSearch(reqs[r].query, reqs[r].used).search_results)
              /\ reqs[r].result = RunAlone(reqs[r].query, reqs[r].used)

\* both calls have finished, each took steps while the other was under way,
\* they asked different questions, one got a generated answer from two
\* fetched pages and the other a generation fault after a page error
C11_Witness ==
    /\ \A r \in Requests : reqs[r].pc = "done" /\ reqs[r].overlapped
    /\ reqs["r1"].query = "a"
    /\ reqs["r2"].query = " b\ta"
    /\ reqs["r1"].result.answer = "generated answer"
    /\ Len(reqs["r1"].result.documents) = 2
    /\ reqs["r2"].used.g.kind = "fault"
    /\ Len(reqs["r2"].result.documents) = 1
    /\ reqs["r1"].result # reqs["r2"].result

====
